---- MODULE Spec2Model ----
(***************************************************************************)
(* A model of the photo gallery server (src/unnamed/part_000, the paginated *)
(* variant, and src/src/app.js, the earlier variant of the same server).   *)
(*                                                                         *)
(* Strings are sequences of one-character tokens.  A percent escape of a   *)
(* query string is one token ("%2e" is the three characters %, 2, e): it   *)
(* is no "." and no "/" for path.normalize or String.includes, and         *)
(* decodeURIComponent turns it into the character it encodes.  The host is *)
(* POSIX (path.posix): "/" is the only separator, "\" is an ordinary       *)
(* character.                                                              *)
(***************************************************************************)
EXTENDS Integers, Sequences, FiniteSets, TLC

VARIABLES
    vpInput,      \* SpecPath: the string handed to validatePath
    vpResult,     \* SpecPath: <<>> before the call, then <<TRUE>> or <<FALSE>>
    fsFiles,      \* SpecDelete: the regular files that exist, by normalised path
    delPc,        \* SpecDelete: "idle", "received", "done"
    delRaw,       \* SpecDelete: the path parameter as written in the URL
    delStatus,    \* SpecDelete: the response status, 0 before the response
    delOps,       \* SpecDelete: filesystem calls of this request, in order
    folDirs,      \* SpecFolders: the directories created under the root, by path
    folPc,        \* SpecFolders: per client "idle", "received", "create", "done"
    folName,      \* SpecFolders: per client the name field of the request body
    folStatus,    \* SpecFolders: per client the response status, 0 before it
    folHist,      \* SpecFolders: per client, what held when its request arrived
    lsDir,        \* SpecList: the entries of the listed directory, in readdir order
    lsFolder,     \* SpecList: the :folder parameter, <<>> for GET /api/photos
    lsLimit,      \* SpecList: the limit query parameter, <<>> when absent
    lsPageQ,      \* SpecList: the page query parameter of the last request
    lsStatus,     \* SpecList: the status of the last response, 0 before any
    lsPages,      \* SpecList: the bodies answered for pages 1, 2, ... so far
    flStatus,     \* SpecList: the status of GET /api/folders, 0 before the response
    flFolders,    \* SpecList: the body answered by GET /api/folders
    fileName,     \* SpecFile: file.originalname, as the multipart parser gives it
    fileMime,     \* SpecFile: file.mimetype
    filePc,       \* SpecFile: "arrived", "accepted", "rejected", "stored"
    fileError,    \* SpecFile: the error the filter passed to its callback, <<>> if none
    fileStored,   \* SpecFile: the name storage.filename computed, <<>> before
    fileNow,      \* SpecFile: the instant storage.filename read, <<>> before
    fileDisk,     \* SpecFile: the paths of the files written for this upload
    upVariant,    \* SpecUpload: which variant of the server runs
    upPc,         \* SpecUpload: "idle", "parsing", "done"
    upFolder,     \* SpecUpload: the folder field of the form, <<>> when absent
    upFolderFirst, \* SpecUpload: does the folder field precede the files?
    upSeen,       \* SpecUpload: file parts of field photos read so far
    upSawBig,     \* SpecUpload: a file the filter took was over the size limit
    upFiles,      \* SpecUpload: req.files, as the set of paths stored
    upOps,        \* SpecUpload: filesystem calls of this request
    upStatus,     \* SpecUpload: the response status, 0 before the response
    upBody,       \* SpecUpload: the response body, <<>> before the response
    rcFs,         \* SpecListDelete: the entries now in the listed directory
    rcAtStart,    \* SpecListDelete: the entries there when the listing arrived
    rcPc,         \* SpecListDelete: listing "idle", "received", "readdir",
                  \*   "loop", "done"
    rcAll,        \* SpecListDelete: allFiles, the names readdir returned
    rcNext,       \* SpecListDelete: the index in allFiles of the next stat
    rcStats,      \* SpecListDelete: the entries stat has answered for so far
    rcStatus,     \* SpecListDelete: the listing's response status, 0 before
    rcBody,       \* SpecListDelete: the listing's response body, <<>> before
    rcDelPc,      \* SpecListDelete: delete "idle", "received", "stat",
                  \*   "unlink", "done"
    rcDelPath,    \* SpecListDelete: the path parameter of the delete
    rcDelStatus   \* SpecListDelete: the delete's response status, 0 before

pathVars == <<vpInput, vpResult>>
delVars == <<fsFiles, delPc, delRaw, delStatus, delOps>>
folVars == <<folDirs, folPc, folName, folStatus, folHist>>
lsVars == <<lsDir, lsFolder, lsLimit, lsPageQ, lsStatus, lsPages, flStatus, flFolders>>
fileVars == <<fileName, fileMime, filePc, fileError, fileStored, fileNow, fileDisk>>

upVars == <<upVariant, upPc, upFolder, upFolderFirst, upSeen, upSawBig, upFiles, upOps,
            upStatus, upBody>>

rcVars == <<rcFs, rcAtStart, rcPc, rcAll, rcNext, rcStats, rcStatus, rcBody,
            rcDelPc, rcDelPath, rcDelStatus>>
vars == <<pathVars, delVars, folVars, lsVars, fileVars, upVars, rcVars>>

-----------------------------------------------------------------------------
(* Each specification below exercises one part of the server; the variables *)
(* of the other parts rest at these values.                                 *)

PathIdle ==
    /\ vpInput = <<>>
    /\ vpResult = <<>>

DelIdle ==
    /\ fsFiles = {}
    /\ delPc = "idle"
    /\ delRaw = <<>>
    /\ delStatus = 0
    /\ delOps = <<>>

\* the clients that post folder requests
Clients == {"c1", "c2"}

NoHist == [before |-> {}, dirs |-> {}, alone |-> FALSE]

FolIdle ==
    /\ folDirs = {}
    /\ folPc = [c \in Clients |-> "idle"]
    /\ folName = [c \in Clients |-> <<>>]
    /\ folStatus = [c \in Clients |-> 0]
    /\ folHist = [c \in Clients |-> NoHist]

LsIdle ==
    /\ lsDir = <<>>
    /\ lsFolder = <<>>
    /\ lsLimit = <<>>
    /\ lsPageQ = <<>>
    /\ lsStatus = 0
    /\ lsPages = <<>>
    /\ flStatus = 0
    /\ flFolders = <<>>

FileIdle ==
    /\ fileName = <<>>
    /\ fileMime = <<>>
    /\ filePc = "idle"
    /\ fileError = <<>>
    /\ fileStored = <<>>
    /\ fileNow = <<>>
    /\ fileDisk = {}

UpIdle ==
    /\ upVariant = "none"
    /\ upPc = "idle"
    /\ upFolder = <<>>
    /\ upFolderFirst = FALSE
    /\ upSeen = 0
    /\ upSawBig = FALSE
    /\ upFiles = {}
    /\ upOps = {}
    /\ upStatus = 0
    /\ upBody = <<>>

RcIdle ==
    /\ rcFs = <<>>
    /\ rcAtStart = <<>>
    /\ rcPc = "idle"
    /\ rcAll = <<>>
    /\ rcNext = 0
    /\ rcStats = <<>>
    /\ rcStatus = 0
    /\ rcBody = <<>>
    /\ rcDelPc = "idle"
    /\ rcDelPath = <<>>
    /\ rcDelStatus = 0

-----------------------------------------------------------------------------
(* Bounds *)

MaxPathLen == 4
MaxQueryLen == 3
MaxFiles == 3
MaxNameLen == 4
MaxRequestFiles == 11
MaxListed == 2

-----------------------------------------------------------------------------
(* Generic string helpers *)

\* All sequences over S of length 0..n
SeqsUpTo(S, n) == UNION {[1..k -> S] : k \in 0..n}

\* String.prototype.includes('..')
IncludesDotDot(s) == \E i \in 1..(Len(s) - 1) : s[i] = "." /\ s[i + 1] = "."

\* String.prototype.includes(ch) for a one-character needle
IncludesChar(s, ch) == \E i \in 1..Len(s) : s[i] = ch

\* s.split('/') : the segments between separators (empty segments kept)
RECURSIVE SplitFrom(_, _, _, _)
SplitFrom(s, i, cur, acc) ==
    IF i > Len(s) THEN Append(acc, cur)
    ELSE IF s[i] = "/" THEN SplitFrom(s, i + 1, <<>>, Append(acc, cur))
    ELSE SplitFrom(s, i + 1, Append(cur, s[i]), acc)

SplitSlash(s) == SplitFrom(s, 1, <<>>, <<>>)

\* segs.join('/')
RECURSIVE JoinSlash(_)
JoinSlash(segs) ==
    IF Len(segs) = 0 THEN <<>>
    ELSE IF Len(segs) = 1 THEN segs[1]
    ELSE segs[1] \o <<"/">> \o JoinSlash(Tail(segs))

DotSeg == <<".">>
DotDotSeg == <<".", ".">>

-----------------------------------------------------------------------------
(* path.posix.normalize, as validatePath and path.join use it *)

\* normalizeString: walk the segments; "" and "." are dropped, ".." pops the
\* last kept segment unless there is none or it is itself "..", in which case
\* it is kept only when the path is relative (allowAboveRoot).
RECURSIVE NormalizeSegs(_, _, _)
NormalizeSegs(segs, allowAboveRoot, res) ==
    IF Len(segs) = 0 THEN res
    ELSE LET s == Head(segs)
             rest == Tail(segs)
         IN  IF s = <<>> \/ s = DotSeg
                 THEN NormalizeSegs(rest, allowAboveRoot, res)
             ELSE IF s = DotDotSeg
                 THEN IF Len(res) > 0 /\ res[Len(res)] # DotDotSeg
                          THEN NormalizeSegs(rest, allowAboveRoot, SubSeq(res, 1, Len(res) - 1))
                      ELSE IF allowAboveRoot
                          THEN NormalizeSegs(rest, allowAboveRoot, Append(res, s))
                      ELSE NormalizeSegs(rest, allowAboveRoot, res)
             ELSE NormalizeSegs(rest, allowAboveRoot, Append(res, s))

pathNormalize(p) ==
    IF Len(p) = 0 THEN <<".">>
    ELSE LET isAbsolute == p[1] = "/"
             trailingSeparator == p[Len(p)] = "/"
             body == JoinSlash(NormalizeSegs(SplitSlash(p), ~isAbsolute, <<>>))
         IN  IF Len(body) = 0
                 THEN IF isAbsolute THEN <<"/">>
                      ELSE IF trailingSeparator THEN <<".", "/">> ELSE <<".">>
             ELSE (IF isAbsolute THEN <<"/">> ELSE <<>>)
                  \o body
                  \o (IF trailingSeparator THEN <<"/">> ELSE <<>>)

validatePath(inputPath) == ~IncludesDotDot(pathNormalize(inputPath))

-----------------------------------------------------------------------------
(* The photo root and the filesystem the delete handler sees *)

\* PHOTO_DIR, './uploads', after path.join has normalised it: one segment
PHOTO_DIR == <<"uploads">>

\* path.join(a, b) == normalize(a + '/' + b)
pathJoin(a, b) == pathNormalize(a \o <<"/">> \o b)

\* a normalised path is inside the photo root when its first segment is the root
InsideRoot(p) == Len(SplitSlash(p)) > 0 /\ SplitSlash(p)[1] = PHOTO_DIR

StripTrailingSlash(p) ==
    IF Len(p) > 1 /\ p[Len(p)] = "/" THEN SubSeq(p, 1, Len(p) - 1) ELSE p

\* the directories that exist: the working directory, its ancestors, the root
IsDirectory(p) ==
    LET q == StripTrailingSlash(p)
    IN  \/ q \in {<<".">>, <<"/">>, PHOTO_DIR}
        \/ (Len(q) > 0 /\ \A i \in 1..Len(SplitSlash(q)) : SplitSlash(q)[i] = DotDotSeg)

\* fs.pathExists
pathExists(files, p) == p \in files \/ IsDirectory(p)

\* the files a request can name: one photo in the root, one file beside the root
PhotoInRoot == PHOTO_DIR \o <<"/", "a">>
FileBesideRoot == <<"a">>

-----------------------------------------------------------------------------
(* DELETE /api/photos *)

QueryChars == {"a", ".", "/", "%2e", "%2f", "%252e", "%"}

\* the character (or escape) one URI decoding turns a token into; "%" is a
\* percent sign that starts no valid escape
DecodeToken(t) ==
    CASE t = "%2e" -> "."
      [] t = "%2f" -> "/"
      [] t = "%252e" -> "%2e"
      [] OTHER -> t

Malformed(s) == IncludesChar(s, "%")

\* decodeURIComponent on a well-formed string
decodeURIComponent(s) == [i \in 1..Len(s) |-> DecodeToken(s[i])]

\* req.query.path: the query parser decodes once, and keeps the raw text
\* when the text does not decode
reqQueryPath(raw) == IF Malformed(raw) THEN raw ELSE decodeURIComponent(raw)

\* The handler, from the parsed parameter to the response:
\* [status, ops, files] where ops are the filesystem calls it made
deletePhoto(files, photoPath) ==
    IF Len(photoPath) = 0 THEN [status |-> 400, ops |-> <<>>, files |-> files]
    ELSE IF ~validatePath(photoPath) THEN [status |-> 400, ops |-> <<>>, files |-> files]
    ELSE IF Malformed(photoPath)
        \* decodeURIComponent throws URIError, caught by the handler's catch
        THEN [status |-> 500, ops |-> <<>>, files |-> files]
    ELSE LET fullPath == pathJoin(PHOTO_DIR, decodeURIComponent(photoPath))
             probe == [op |-> "pathExists", path |-> fullPath]
             unlink == [op |-> "unlink", path |-> fullPath]
         IN  IF ~pathExists(files, fullPath)
                 THEN [status |-> 404, ops |-> <<probe>>, files |-> files]
             ELSE IF fullPath \in files
                 THEN [status |-> 200, ops |-> <<probe, unlink>>, files |-> files \ {fullPath}]
             \* unlink of a directory throws, caught by the handler's catch
             ELSE [status |-> 500, ops |-> <<probe, unlink>>, files |-> files]

DelInit ==
    /\ fsFiles \in SUBSET {PhotoInRoot, FileBesideRoot}
    /\ delPc = "idle"
    /\ delRaw = <<>>
    /\ delStatus = 0
    /\ delOps = <<>>

\* a DELETE request arrives
DeleteArrives ==
    /\ delPc = "idle"
    /\ \E raw \in SeqsUpTo(QueryChars, MaxQueryLen) : delRaw' = raw
    /\ delPc' = "received"
    /\ delStatus' = 0
    /\ delOps' = <<>>
    /\ UNCHANGED <<fsFiles, pathVars, folVars, lsVars, fileVars, upVars, rcVars>>

\* app.delete('/api/photos') runs and answers
DeleteHandler ==
    /\ delPc = "received"
    /\ LET r == deletePhoto(fsFiles, reqQueryPath(delRaw))
       IN  /\ delStatus' = r.status
           /\ delOps' = r.ops
           /\ fsFiles' = r.files
    /\ delPc' = "done"
    /\ UNCHANGED <<delRaw, pathVars, folVars, lsVars, fileVars, upVars, rcVars>>

\* the connection closes; the server waits for the next request
DeleteCloses ==
    /\ delPc = "done"
    /\ delPc' = "idle"
    /\ delRaw' = <<>>
    /\ delStatus' = 0
    /\ delOps' = <<>>
    /\ UNCHANGED <<fsFiles, pathVars, folVars, lsVars, fileVars, upVars, rcVars>>

NextDelete == DeleteArrives \/ DeleteHandler \/ DeleteCloses

InitDelete == DelInit /\ PathIdle /\ FolIdle /\ LsIdle /\ FileIdle /\ UpIdle /\ RcIdle

SpecDelete == InitDelete /\ [][NextDelete]_vars

\* C2: the delete handler makes no filesystem call on a path outside the
\* photo root, and a request whose decoded path parameter joins to a place
\* outside the root is answered 400 without any filesystem call.
C2_DeleteStaysInsideRoot ==
    delPc = "done" =>
        /\ \A i \in 1..Len(delOps) : InsideRoot(delOps[i].path)
        /\ LET q == reqQueryPath(delRaw)
           IN  (~Malformed(q) /\ ~InsideRoot(pathJoin(PHOTO_DIR, decodeURIComponent(q))))
                   => (delStatus = 400 /\ delOps = <<>>)

-----------------------------------------------------------------------------
(* POST /api/folders *)

\* String.prototype.trim, with " " the whitespace of the model
RECURSIVE TrimLeft(_)
TrimLeft(s) == IF Len(s) > 0 /\ s[1] = " " THEN TrimLeft(Tail(s)) ELSE s

RECURSIVE TrimRight(_)
TrimRight(s) ==
    IF Len(s) > 0 /\ s[Len(s)] = " " THEN TrimRight(SubSeq(s, 1, Len(s) - 1)) ELSE s

trim(s) == TrimRight(TrimLeft(s))

\* the name fields clients send
FolderNames ==
    { <<"v">>, <<" ", "v", " ">>, <<"w">>, <<"temp">>, <<>>, <<" ">>, <<".">>,
      <<".", ".">>, <<"v", ".", ".">>, <<"v", "/", "w">>, <<"v", "\\", "w">> }

TempDir == PHOTO_DIR \o <<"/", "temp">>

\* the handler up to and including its existence check: the status it
\* answers with, or 0 when it goes on to create the folder
createFolderCheckNoConflict(dirs, name) ==
    IF Len(name) = 0 \/ Len(trim(name)) = 0 THEN 400
    ELSE LET folderName == trim(name)
         IN  IF ~validatePath(folderName)
                \/ IncludesChar(folderName, "/")
                \/ IncludesChar(folderName, "\\")
             THEN 400
             ELSE 0

createFolderCheck(dirs, name) ==
    IF Len(name) = 0 \/ Len(trim(name)) = 0 THEN 400
    ELSE LET folderName == trim(name)
         IN  IF ~validatePath(folderName)
                \/ IncludesChar(folderName, "/")
                \/ IncludesChar(folderName, "\\")
             THEN 400
             ELSE IF pathExists(dirs, pathJoin(PHOTO_DIR, folderName)) THEN 409
             ELSE 0

\* fs.ensureDir: the directory exists afterwards, whether or not it did
ensureDir(dirs, p) == dirs \cup {StripTrailingSlash(p)}

FolInit ==
    /\ folDirs = {TempDir}
    /\ folPc = [c \in Clients |-> "idle"]
    /\ folName = [c \in Clients |-> <<>>]
    /\ folStatus = [c \in Clients |-> 0]
    /\ folHist = [c \in Clients |-> NoHist]

Active(c) == folPc[c] \in {"received", "create"}

\* a POST /api/folders request of client c arrives
FolderArrives(c) ==
    /\ folPc[c] = "idle"
    /\ \E name \in FolderNames : folName' = [folName EXCEPT ![c] = name]
    /\ folPc' = [folPc EXCEPT ![c] = "received"]
    /\ folHist' = [d \in Clients |->
                     IF d = c
                     THEN [before |-> {e \in Clients : folPc[e] = "done"},
                           dirs |-> folDirs,
                           alone |-> \A e \in Clients \ {c} : ~Active(e)]
                     ELSE IF Active(d) THEN [folHist[d] EXCEPT !.alone = FALSE]
                     ELSE folHist[d]]
    /\ UNCHANGED <<folDirs, folStatus, pathVars, delVars, lsVars, fileVars, upVars, rcVars>>

\* the handler runs to the result of await fs.pathExists
FolderCheck(c) ==
    /\ folPc[c] = "received"
    /\ LET st == createFolderCheck(folDirs, folName[c])
       IN  /\ folStatus' = [folStatus EXCEPT ![c] = st]
           /\ folPc' = [folPc EXCEPT ![c] = IF st = 0 THEN "create" ELSE "done"]
    /\ UNCHANGED <<folDirs, folName, folHist, pathVars, delVars, lsVars, fileVars, upVars, rcVars>>

\* await fs.ensureDir, then the success response
FolderCreate(c) ==
    /\ folPc[c] = "create"
    /\ folDirs' = ensureDir(folDirs, pathJoin(PHOTO_DIR, trim(folName[c])))
    /\ folStatus' = [folStatus EXCEPT ![c] = 200]
    /\ folPc' = [folPc EXCEPT ![c] = "done"]
    /\ UNCHANGED <<folName, folHist, pathVars, delVars, lsVars, fileVars, upVars, rcVars>>

\* the connection of client c closes
FolderCloses(c) ==
    /\ folPc[c] = "done"
    /\ folPc' = [folPc EXCEPT ![c] = "idle"]
    /\ folName' = [folName EXCEPT ![c] = <<>>]
    /\ folStatus' = [folStatus EXCEPT ![c] = 0]
    /\ folHist' = [d \in Clients |->
                     IF d = c THEN NoHist
                     ELSE [folHist[d] EXCEPT !.before = @ \ {c}]]
    /\ UNCHANGED <<folDirs, pathVars, delVars, lsVars, fileVars, upVars, rcVars>>

NextFolders ==
    \E c \in Clients :
        FolderArrives(c) \/ FolderCheck(c) \/ FolderCreate(c) \/ FolderCloses(c)

InitFolders == FolInit /\ PathIdle /\ DelIdle /\ LsIdle /\ FileIdle /\ UpIdle /\ RcIdle

SpecFolders == InitFolders /\ [][NextFolders]_vars

\* a name the folder route is meant to accept: one non-empty segment
ValidFolderName(n) ==
    /\ Len(n) > 0
    /\ ~IncludesChar(n, "/")
    /\ ~IncludesChar(n, "\\")
    /\ ~IncludesDotDot(n)

\* first and second are two requests for the same valid name, the second
\* issued after the first was answered, neither overlapping another request,
\* and the folder was not there when the first arrived
OneAfterTheOther(first, second) ==
    /\ first # second
    /\ folPc[first] = "done" /\ folPc[second] = "done"
    /\ first \in folHist[second].before
    /\ folHist[first].alone /\ folHist[second].alone
    /\ trim(folName[first]) = trim(folName[second])
    /\ ValidFolderName(trim(folName[first]))
    /\ ~pathExists(folHist[first].dirs, pathJoin(PHOTO_DIR, trim(folName[first])))

\* C6: of two requests for the same valid new name issued one after the
\* other, the first succeeds and creates the folder, the second is answered
\* 409 and leaves the filesystem as it found it.
C6_SecondCreateConflicts ==
    \A first, second \in Clients :
        OneAfterTheOther(first, second) =>
            /\ folStatus[first] = 200
            /\ pathJoin(PHOTO_DIR, trim(folName[first])) \in folDirs
            /\ folStatus[second] = 409
            /\ folDirs = folHist[second].dirs

C6_Witness ==
    /\ OneAfterTheOther("c1", "c2")
    /\ folName["c1"] = <<"v">>
    /\ folName["c2"] = <<" ", "v", " ">>
    /\ folStatus["c2"] = 409

\* a and b are two answered requests for the same valid name, and the folder
\* was there when neither arrived: their handlers ran at the same time
ConcurrentForSameNewName(a, b) ==
    /\ a # b
    /\ folPc[a] = "done" /\ folPc[b] = "done"
    /\ trim(folName[a]) = trim(folName[b])
    /\ ValidFolderName(trim(folName[a]))
    /\ ~pathExists(folHist[a].dirs, pathJoin(PHOTO_DIR, trim(folName[a])))
    /\ ~pathExists(folHist[b].dirs, pathJoin(PHOTO_DIR, trim(folName[b])))

\* C12: of two POST /api/folders requests for the same new valid name that
\* are processed concurrently, whatever the interleaving of their existence
\* checks and directory creations, at most one is answered with success and
\* the other is answered 409.
C12_ConcurrentCreateOneSucceeds ==
    \A a, b \in Clients :
        ConcurrentForSameNewName(a, b) =>
            /\ ~(folStatus[a] = 200 /\ folStatus[b] = 200)
            /\ folStatus[a] = 409 \/ folStatus[b] = 409

-----------------------------------------------------------------------------
(* GET /api/photos and GET /api/photos/:folder (the paginated variant) *)

\* String.prototype.toLowerCase on the name chunks of the model
ToLowerChunk(t) ==
    CASE t = "JPG" -> "jpg"
      [] t = "A" -> "a"
      [] OTHER -> t

toLowerCase(s) == [i \in 1..Len(s) |-> ToLowerChunk(s[i])]

\* the extensions of the listing's regular expression
ListExtensions == {"jpg", "jpeg", "png", "gif", "bmp", "webp"}

\* /\.(jpg|jpeg|png|gif|bmp|webp)$/i.test(file)
IsPhotoName(file) ==
    /\ Len(file) >= 2
    /\ file[Len(file) - 1] = "."
    /\ ToLowerChunk(file[Len(file)]) \in ListExtensions

\* a query parameter made of decimal digits, as a number (ToNumber)
RECURSIVE DigitsValue(_)
DigitsValue(d) ==
    IF Len(d) = 0 THEN 0
    ELSE 10 * DigitsValue(SubSeq(d, 1, Len(d) - 1)) + d[Len(d)]

\* a non-negative number as its decimal digits (ToString)
RECURSIVE NumberDigits(_)
NumberDigits(n) ==
    IF n < 10 THEN <<n>> ELSE Append(NumberDigits(n \div 10), n % 10)

\* req.query.x || dflt: the text of the parameter, or the numeric default
\* when it is absent or empty.  A value is [str, num]: str is TRUE for text.
QueryOr(q, dflt) ==
    IF Len(q) = 0 THEN [str |-> FALSE, num |-> dflt, digits |-> <<>>]
    ELSE [str |-> TRUE, num |-> DigitsValue(q), digits |-> q]

DefaultPage == 1
DefaultLimit == 12

\* a + b of JavaScript for a number a >= 0: the sum when b is a number, the
\* concatenated text (read back as a number by slice) when b is text
JsPlus(a, b) ==
    IF b.str THEN DigitsValue(NumberDigits(a) \o b.digits) ELSE a + b.num

\* Array.prototype.slice(start, end) for start, end >= 0
slice(arr, start, end) ==
    LET from == IF start < Len(arr) THEN start ELSE Len(arr)
        to == IF end < Len(arr) THEN end ELSE Len(arr)
    IN  IF from >= to THEN <<>> ELSE SubSeq(arr, from + 1, to)

\* Math.ceil(a / b) for a >= 0, b >= 1
CeilDiv(a, b) == (a + b - 1) \div b

\* photoFiles.push: the entries kept, in readdir order, with their path
RECURSIVE PhotoFilesOf(_, _)
PhotoFilesOf(dir, folder) ==
    IF Len(dir) = 0 THEN <<>>
    ELSE LET e == Head(dir)
             rest == PhotoFilesOf(Tail(dir), folder)
         IN  IF e.isFile /\ IsPhotoName(e.name)
             THEN <<[name |-> e.name,
                     path |-> IF Len(folder) > 0 THEN folder \o <<"/">> \o e.name
                              ELSE e.name,
                     modified |-> e.mtime,
                     extension |-> toLowerCase(<<e.name[Len(e.name)]>>)]>> \o rest
             ELSE rest

\* the comparator with its operands exchanged: oldest first
RECURSIVE InsertOldestFirst(_, _)
InsertOldestFirst(sorted, e) ==
    IF Len(sorted) = 0 THEN <<e>>
    ELSE IF Head(sorted).modified <= e.modified
        THEN <<Head(sorted)>> \o InsertOldestFirst(Tail(sorted), e)
    ELSE <<e>> \o sorted

\* photoFiles.sort((a, b) => b.modified - a.modified): newest first, entries
\* of equal time in their earlier order (the sort is stable)
RECURSIVE InsertByModified(_, _)
InsertByModified(sorted, e) ==
    IF Len(sorted) = 0 THEN <<e>>
    ELSE IF Head(sorted).modified >= e.modified
        THEN <<Head(sorted)>> \o InsertByModified(Tail(sorted), e)
    ELSE <<e>> \o sorted

RECURSIVE SortByModified(_)
SortByModified(photos) ==
    IF Len(photos) = 0 THEN <<>>
    ELSE InsertByModified(SortByModified(SubSeq(photos, 1, Len(photos) - 1)),
                          photos[Len(photos)])

\* getPaginatedPhotos for a directory that exists; page and limit as
\* QueryOr gives them, limit >= 1, page >= 1
getPaginatedPhotos(dir, page, limit, folder) ==
    LET photoFiles == SortByModified(PhotoFilesOf(dir, folder))
        totalPhotos == Len(photoFiles)
        totalPages == CeilDiv(totalPhotos, limit.num)
        offset == (page.num - 1) * limit.num
        paginatedPhotos == slice(photoFiles, offset, JsPlus(offset, limit))
    IN  [photos |-> paginatedPhotos,
         pagination |-> [currentPage |-> page.num,
                         totalPages |-> totalPages,
                         totalPhotos |-> totalPhotos,
                         limit |-> limit.num]]

\* the folders a listing request names: one that exists, one that does
\* not, one that is refused
ExistingFolder == <<"2024">>
MissingFolder == <<"2025">>
FolderParams == {<<>>, ExistingFolder, MissingFolder, <<".", ".">>}

\* the status the folder route answers before listing, 0 when it lists
listFolderCheck(folder) ==
    IF Len(folder) = 0 THEN 0
    ELSE IF ~validatePath(folder) THEN 400
    ELSE IF pathJoin(PHOTO_DIR, folder) # PHOTO_DIR \o <<"/">> \o ExistingFolder THEN 404
    ELSE 0

\* the limit parameters clients send (each at least 1 as a number)
LimitQueries == {<<>>, <<1>>, <<2>>, <<1, 2>>}

\* the i-th entry of a directory is named after i, so names are distinct
BaseChunk(i) == "f" \o ToString(i)

\* what an entry can be: a photo, a photo with an upper-case extension, a
\* file that is no photo, a directory named like a photo, a hidden directory
EntryKinds ==
    { [prefix |-> <<>>, ext |-> <<".", "jpg">>, isFile |-> TRUE],
      [prefix |-> <<>>, ext |-> <<".", "JPG">>, isFile |-> TRUE],
      [prefix |-> <<>>, ext |-> <<".", "txt">>, isFile |-> TRUE],
      [prefix |-> <<>>, ext |-> <<".", "jpg">>, isFile |-> FALSE],
      [prefix |-> <<".">>, ext |-> <<>>, isFile |-> FALSE] }

Mtimes == {1, 2}

\* the directories of up to max entries, in readdir order
DirectoriesUpTo(max) ==
    UNION {
      { [i \in 1..n |-> [name |-> k[i].prefix \o <<BaseChunk(i)>> \o k[i].ext,
                         isFile |-> k[i].isFile,
                         mtime |-> t[i]]] :
            k \in [1..n -> EntryKinds], t \in [1..n -> Mtimes] }
      : n \in 0..max }

\* the directories listed: up to MaxFiles entries
Directories == DirectoriesUpTo(MaxFiles)

LsInit ==
    /\ lsDir \in Directories
    /\ lsFolder \in FolderParams
    /\ lsLimit \in LimitQueries
    /\ lsPageQ = <<>>
    /\ lsStatus = 0
    /\ lsPages = <<>>
    /\ flStatus = 0
    /\ flFolders = <<>>

\* the page the client asks for next: the one after those it has
NextPageNo == Len(lsPages) + 1

\* a client walks the pages in order from page 1, while the last answer
\* says there are more, and asks once for the page beyond the last
MorePages ==
    \/ lsStatus = 0
    \/ /\ lsStatus = 200
       /\ Len(lsPages) <= lsPages[Len(lsPages)].pagination.totalPages

\* GET /api/photos or GET /api/photos/:folder for the next page
GetPhotos ==
    /\ MorePages
    /\ \E pq \in {NumberDigits(NextPageNo)} \cup (IF NextPageNo = 1 THEN {<<>>} ELSE {}) :
         /\ lsPageQ' = pq
         /\ LET st == listFolderCheck(lsFolder)
            IN  IF st # 0
                THEN /\ lsStatus' = st
                     /\ UNCHANGED lsPages
                ELSE /\ lsStatus' = 200
                     /\ lsPages' = Append(lsPages,
                                      getPaginatedPhotos(lsDir,
                                                         QueryOr(pq, DefaultPage),
                                                         QueryOr(lsLimit, DefaultLimit),
                                                         lsFolder))
    /\ UNCHANGED <<lsDir, lsFolder, lsLimit, flStatus, flFolders,
                   pathVars, delVars, folVars, fileVars, upVars, rcVars>>

\* String.prototype.startsWith('.')
startsWithDot(item) == Len(item) > 0 /\ item[1] = "."

\* folders.push: the directories kept, in readdir order
RECURSIVE FoldersOf(_)
FoldersOf(items) ==
    IF Len(items) = 0 THEN <<>>
    ELSE LET e == Head(items)
             rest == FoldersOf(Tail(items))
         IN  IF ~e.isFile /\ ~startsWithDot(e.name)
             THEN <<[name |-> e.name, path |-> e.name, modified |-> e.mtime]>> \o rest
             ELSE rest

\* the handler of GET /api/folders on the items readdir gives for the root
listFolders(items) == SortByModified(FoldersOf(items))

\* fs.readdir(PHOTO_DIR): the listed directory when that is the root, else
\* a root that holds the listed folder and the temp folder made at startup
RootItems ==
    IF Len(lsFolder) = 0 THEN lsDir
    ELSE << [name |-> ExistingFolder, isFile |-> FALSE, mtime |-> 1],
            [name |-> <<"temp">>, isFile |-> FALSE, mtime |-> 2] >>

\* GET /api/folders
GetFolders ==
    /\ flStatus = 0
    /\ flStatus' = 200
    /\ flFolders' = listFolders(RootItems)
    /\ UNCHANGED <<lsDir, lsFolder, lsLimit, lsPageQ, lsStatus, lsPages,
                   pathVars, delVars, folVars, fileVars, upVars, rcVars>>

NextList == GetPhotos \/ GetFolders

InitList == LsInit /\ PathIdle /\ DelIdle /\ FolIdle /\ FileIdle /\ UpIdle /\ RcIdle

SpecList == InitList /\ [][NextList]_vars

RECURSIVE SumOfLengths(_, _)
SumOfLengths(pages, n) ==
    IF n = 0 THEN 0 ELSE Len(pages[n].photos) + SumOfLengths(pages, n - 1)

PagesFetched ==
    /\ lsStatus = 200
    /\ Len(lsPages) >= lsPages[1].pagination.totalPages

\* C4: for a fixed limit and an unchanged directory, the pages 1..totalPages
\* partition the matching files: their item counts add up to totalPhotos and
\* no file is on two pages.
C4_PagesPartition ==
    PagesFetched =>
        LET total == lsPages[1].pagination.totalPages
        IN  /\ SumOfLengths(lsPages, total) = lsPages[1].pagination.totalPhotos
            /\ \A p, q \in 1..total :
                   \A i \in 1..Len(lsPages[p].photos), j \in 1..Len(lsPages[q].photos) :
                       lsPages[p].photos[i].name = lsPages[q].photos[j].name
                           => (p = q /\ i = j)

\* newest first: no entry is older than one after it
SortedByModified(entries) ==
    \A i, j \in 1..Len(entries) :
        i < j => entries[i].modified >= entries[j].modified

\* C11: every listing result, a page of the photo listing or the folder
\* listing, is ordered by modification time descending: for indices i < j,
\* entry[i].modified >= entry[j].modified.
C11_ListingsNewestFirst ==
    /\ \A p \in 1..Len(lsPages) : SortedByModified(lsPages[p].photos)
    /\ flStatus = 200 => SortedByModified(flFolders)

\* a page holds two photos and the folder listing two folders, each pair in
\* the opposite order of the directory read
C11_Witness ==
    /\ lsFolder = ExistingFolder
    /\ Len(lsDir) = 2
    /\ lsDir[1].mtime < lsDir[2].mtime
    /\ Len(lsPages) >= 1
    /\ Len(lsPages[1].photos) = 2
    /\ lsPages[1].photos[1].name = lsDir[2].name
    /\ flStatus = 200
    /\ Len(flFolders) = 2
    /\ flFolders[1].name = RootItems[2].name
    /\ flFolders[1].modified > flFolders[2].modified

\* the number of matching photos of the directory, counted entry by entry
MatchingCount ==
    Cardinality({i \in 1..Len(lsDir) : lsDir[i].isFile /\ IsPhotoName(lsDir[i].name)})

Min(a, b) == IF a < b THEN a ELSE b
Max(a, b) == IF a > b THEN a ELSE b

\* C5: page p with limit L of a directory with n matching photos answers
\* totalPhotos = n, totalPages = ceil(n / L), and the items of the sorted
\* sequence from offset (p - 1) * L, min(L, max(0, n - (p - 1) * L)) of them.
C5_PageContents ==
    \A p \in 1..Len(lsPages) :
        LET L == IF Len(lsLimit) = 0 THEN DefaultLimit ELSE DigitsValue(lsLimit)
            n == MatchingCount
            sorted == SortByModified(PhotoFilesOf(lsDir, lsFolder))
            count == Min(L, Max(0, n - (p - 1) * L))
        IN  /\ lsPages[p].pagination.totalPhotos = n
            /\ lsPages[p].pagination.totalPages = (IF n = 0 THEN 0 ELSE ((n - 1) \div L) + 1)
            /\ Len(lsPages[p].photos) = count
            /\ \A i \in 1..Len(lsPages[p].photos) :
                   /\ (p - 1) * L + i <= Len(sorted)
                   /\ lsPages[p].photos[i] = sorted[(p - 1) * L + i]


-----------------------------------------------------------------------------
(* The upload of one file: upload.fileFilter, storage.destination,         *)
(* storage.filename.  file.originalname carries no "/" and no "\": the     *)
(* multipart parser keeps the part of the client's name after the last one. *)

\* the characters of an uploaded name: letters, the chunks "jpg" and "JPG",
\* white space, a character of the forbidden class, and the two bytes
\* (0xC3, 0xA9) that are the UTF-8 form of one non-ASCII letter
NameChars == {"a", ".", " ", "<", "jpg", "JPG", "xC3", "xA9"}

\* Buffer.from(name, 'latin1').toString('utf8'): a lead byte and its
\* continuation byte become one letter, a byte that fits nowhere U+FFFD
RECURSIVE latin1ToUtf8(_)
latin1ToUtf8(s) ==
    IF Len(s) = 0 THEN <<>>
    ELSE IF s[1] = "xC3" /\ Len(s) >= 2 /\ s[2] = "xA9"
        THEN <<"e-acute">> \o latin1ToUtf8(SubSeq(s, 3, Len(s)))
    ELSE IF s[1] \in {"xC3", "xA9"}
        THEN <<"U+FFFD">> \o latin1ToUtf8(Tail(s))
    ELSE <<s[1]>> \o latin1ToUtf8(Tail(s))

\* the position of the last "." of s, 0 when there is none
RECURSIVE LastDot(_)
LastDot(s) ==
    IF Len(s) = 0 THEN 0
    ELSE IF s[Len(s)] = "." THEN Len(s)
    ELSE LastDot(SubSeq(s, 1, Len(s) - 1))

\* path.extname for a name without separators: from the last "." on, and
\* empty when there is no ".", when the name starts with its only "." or
\* when the name is ".."
pathExtname(s) ==
    LET d == LastDot(s)
    IN  IF d = 0 \/ d = 1 \/ s = DotDotSeg THEN <<>>
        ELSE SubSeq(s, d, Len(s))

EndsWith(s, suffix) ==
    /\ Len(suffix) <= Len(s)
    /\ SubSeq(s, Len(s) - Len(suffix) + 1, Len(s)) = suffix

\* path.basename(name, ext) for a name without separators: the name
\* without the suffix ext when it ends in exactly ext, else the whole name
pathBasename(s, ext) ==
    IF Len(ext) = 0 THEN s
    ELSE IF ext = s THEN <<>>
    ELSE IF EndsWith(s, ext) THEN SubSeq(s, 1, Len(s) - Len(ext))
    ELSE s

\* ALLOWED_EXTENSIONS, the default
ALLOWED_EXTENSIONS == {<<"jpg">>, <<"jpeg">>, <<"png">>, <<"gif">>, <<"bmp">>, <<"webp">>}

\* the error the filter builds: its message lists ALLOWED_EXTENSIONS
NotAllowedError == [kind |-> "Error", message |-> <<"not allowed; allowed:", ALLOWED_EXTENSIONS>>]

\* file.mimetype.startsWith('image/')
IsImageMime(mimetype) == Len(mimetype) > 0 /\ mimetype[1] = "image/"

\* a filter that takes a file when either test passes
fileFilterEither(originalname, mimetype) ==
    LET originalName == latin1ToUtf8(originalname)
        extension == IF Len(pathExtname(originalName)) = 0 THEN <<>>
                     ELSE Tail(toLowerCase(pathExtname(originalName)))
    IN  IF extension \in ALLOWED_EXTENSIONS \/ IsImageMime(mimetype)
        THEN <<>>
        ELSE <<NotAllowedError>>

\* upload.fileFilter: <<>> when the file is taken, else the error
fileFilter(originalname, mimetype) ==
    LET originalName == latin1ToUtf8(originalname)
        \* .slice(1) of the lower-cased extension ('' when there is none)
        extension == IF Len(pathExtname(originalName)) = 0 THEN <<>>
                     ELSE Tail(toLowerCase(pathExtname(originalName)))
    IN  IF extension \in ALLOWED_EXTENSIONS /\ IsImageMime(mimetype)
        THEN <<>>
        ELSE <<NotAllowedError>>

\* the instants at which a name is computed
Instants ==
    { [date |-> "2024-01-02", hh |-> "03", mm |-> "04", ss |-> "05", ms |-> "678"],
      [date |-> "2024-12-31", hh |-> "23", mm |-> "59", ss |-> "59", ms |-> "000"] }

\* Date.prototype.toISOString
toISOString(t) == <<t.date, "T", t.hh, ":", t.mm, ":", t.ss, ".", t.ms, "Z">>

\* .replace(/[:.]/g, '-')
ReplaceColonsAndDots(s) == [i \in 1..Len(s) |-> IF s[i] \in {":", "."} THEN "-" ELSE s[i]]

\* .replace('T', '_'): the first "T" only
RECURSIVE ReplaceFirstT(_)
ReplaceFirstT(s) ==
    IF Len(s) = 0 THEN <<>>
    ELSE IF s[1] = "T" THEN <<"_">> \o Tail(s)
    ELSE <<s[1]>> \o ReplaceFirstT(Tail(s))

\* .split('.')[0]: the text before the first ".", all of it when there is none
RECURSIVE BeforeFirstDot(_)
BeforeFirstDot(s) ==
    IF Len(s) = 0 \/ s[1] = "." THEN <<>>
    ELSE <<s[1]>> \o BeforeFirstDot(Tail(s))

timestampOf(t) == BeforeFirstDot(ReplaceFirstT(ReplaceColonsAndDots(toISOString(t))))

\* the characters of /[<>:"/\\|?*]/
ForbiddenChars == {"<", ">", ":", "\"", "/", "\\", "|", "?", "*"}

\* .replace(/[<>:"/\\|?*]/g, '')
RemoveForbidden(s) == SelectSeq(s, LAMBDA c : c \notin ForbiddenChars)

\* .replace(/\s+/g, '_'): each run of white space becomes one "_"
RECURSIVE CollapseWhitespace(_)
CollapseWhitespace(s) ==
    IF Len(s) = 0 THEN <<>>
    ELSE IF s[1] = " "
        THEN IF Len(s) >= 2 /\ s[2] = " " THEN CollapseWhitespace(Tail(s))
             ELSE <<"_">> \o CollapseWhitespace(Tail(s))
    ELSE <<s[1]>> \o CollapseWhitespace(Tail(s))

\* a sanitiser that forgets the forbidden characters
safeNameKeepsForbidden(baseName) == CollapseWhitespace(baseName)

safeName(baseName) == CollapseWhitespace(RemoveForbidden(baseName))

\* storage.filename at instant t
storageFilename(originalname, t) ==
    LET originalName == latin1ToUtf8(originalname)
        timestamp == timestampOf(t)
        extension == toLowerCase(pathExtname(originalName))
        baseName == pathBasename(originalName, extension)
    IN  timestamp \o <<"_">> \o safeName(baseName) \o extension

\* storage.destination: the directory made and used, for the folder field
\* as the request body holds it when the file arrives (<<>>: no field yet)
storageDestination(folder) ==
    pathJoin(PHOTO_DIR, IF Len(folder) = 0 THEN <<"temp">> ELSE folder)

Mimetypes == {<<"image/", "jpeg">>, <<"application/", "octet-stream">>, <<"text/", "image/">>}

FileInit ==
    /\ fileName \in SeqsUpTo(NameChars, MaxNameLen)
    /\ fileMime \in Mimetypes
    /\ filePc = "arrived"
    /\ fileError = <<>>
    /\ fileStored = <<>>
    /\ fileNow = <<>>
    /\ fileDisk = {}

\* upload.fileFilter decides
FilterFile ==
    /\ filePc = "arrived"
    /\ fileError' = fileFilter(fileName, fileMime)
    /\ filePc' = IF fileError' = <<>> THEN "accepted" ELSE "rejected"
    /\ UNCHANGED <<fileName, fileMime, fileStored, fileNow, fileDisk,
                   pathVars, delVars, folVars, lsVars, upVars, rcVars>>

\* the storage engine names and writes a file the filter took
StoreFile ==
    /\ filePc = "accepted"
    /\ \E t \in Instants :
         /\ fileNow' = <<t>>
         /\ fileStored' = storageFilename(fileName, t)
         /\ fileDisk' = fileDisk \cup
                {storageDestination(<<>>) \o <<"/">> \o storageFilename(fileName, t)}
    /\ filePc' = "stored"
    /\ UNCHANGED <<fileName, fileMime, fileError, pathVars, delVars, folVars, lsVars, upVars, rcVars>>

NextFile == FilterFile \/ StoreFile

InitFile == FileInit /\ PathIdle /\ DelIdle /\ FolIdle /\ LsIdle /\ UpIdle /\ RcIdle

SpecFile == InitFile /\ [][NextFile]_vars

\* the text of s from its last "." on (empty when s has no ".")
FromLastDot(s) == IF LastDot(s) = 0 THEN <<>> ELSE SubSeq(s, LastDot(s), Len(s))

\* the text of s before its last "." (all of s when it has no ".")
BeforeLastDot(s) == IF LastDot(s) = 0 THEN s ELSE SubSeq(s, 1, LastDot(s) - 1)

\* the extension of the decoded name, lower-cased, without its dot
LowerExtension(name) ==
    LET e == toLowerCase(FromLastDot(latin1ToUtf8(name)))
    IN  IF Len(e) = 0 THEN <<>> ELSE Tail(e)

MayBeAccepted ==
    /\ LowerExtension(fileName) \in ALLOWED_EXTENSIONS
    /\ fileMime[1] = "image/"

C9_StoredNameFormat ==
    filePc = "stored" =>
        LET t == fileNow[1]
            originalName == latin1ToUtf8(fileName)
        IN  fileStored =
                <<t.date, "_", t.hh, "-", t.mm, "-", t.ss>>
                \o <<"_">>
                \o safeName(BeforeLastDot(originalName))
                \o toLowerCase(FromLastDot(originalName))

\* C9, the base name and extension alone: what follows the timestamp is
\* "_{sanitizedBase}{extension}"
C9_BaseAndExtension ==
    filePc = "stored" =>
        LET originalName == latin1ToUtf8(fileName)
        IN  fileStored =
                timestampOf(fileNow[1])
                \o <<"_">>
                \o safeName(BeforeLastDot(originalName))
                \o toLowerCase(FromLastDot(originalName))

\* C10: the stored name ends in the original name's lower-cased extension
\* and holds none of the characters < > : " / \ | ? *
C10_StoredNameSafe ==
    filePc = "stored" =>
        /\ EndsWith(fileStored, toLowerCase(FromLastDot(latin1ToUtf8(fileName))))
        /\ \A i \in 1..Len(fileStored) : fileStored[i] \notin ForbiddenChars

\* a name with a forbidden character and white space has been stored
C10_Witness ==
    /\ filePc = "stored"
    /\ fileName = <<"<", " ", ".", "JPG">>


-----------------------------------------------------------------------------
(* POST /api/upload: upload.array('photos', 10), then the route handler,   *)
(* or the error-handling middleware when the upload is aborted.            *)

\* upload.array('photos', 10)
MaxCount == 10

\* limits.files of the two variants
LimitsFilesPaginated == 50
LimitsFilesEarlier == 10

Variants == {"part_000", "app.js"}

limitsFiles(variant) ==
    IF variant = "part_000" THEN LimitsFilesPaginated ELSE LimitsFilesEarlier

\* the working directory of the server, PHOTO_DIR being ./uploads in it
Cwd == <<<<"srv">>, <<"app">>>>

\* path.resolve of a relative path, as segments from "/"
pathResolveSegs(p) == NormalizeSegs(Cwd \o SplitSlash(p), FALSE, <<>>)

RECURSIVE CommonPrefixLen(_, _)
CommonPrefixLen(a, b) ==
    IF Len(a) = 0 \/ Len(b) = 0 \/ Head(a) # Head(b) THEN 0
    ELSE 1 + CommonPrefixLen(Tail(a), Tail(b))

\* path.relative(from, to)
pathRelative(from, to) ==
    LET f == pathResolveSegs(from)
        t == pathResolveSegs(to)
        c == CommonPrefixLen(f, t)
    IN  JoinSlash([i \in 1..(Len(f) - c) |-> DotDotSeg] \o SubSeq(t, c + 1, Len(t)))

\* the error-handling middleware: the status and message for an error
errorMiddleware(err) ==
    IF err.kind = "MulterError" /\ err.code = "LIMIT_FILE_SIZE"
        THEN [status |-> 400, error |-> "file too large"]
    ELSE IF err.kind = "MulterError" /\ err.code = "LIMIT_FILE_COUNT"
        THEN [status |-> 400, error |-> "at most 10 files"]
    ELSE [status |-> 500, error |-> "internal server error"]

MulterError(code) == [kind |-> "MulterError", code |-> code]

\* the folder fields clients send
UploadFolders == {<<>>, <<"2024">>, <<".", ".">>, <<".", ".", "/", "x">>}

\* the file parts clients send: a photo, a photo over the size limit, a
\* file with another extension, a photo declared with another content type
UploadParts ==
    { [name |-> <<"a", ".", "jpg">>, mime |-> <<"image/", "jpeg">>, big |-> FALSE],
      [name |-> <<"a", ".", "jpg">>, mime |-> <<"image/", "jpeg">>, big |-> TRUE],
      [name |-> <<"a", ".", "txt">>, mime |-> <<"image/", "jpeg">>, big |-> FALSE],
      [name |-> <<"a", ".", "jpg">>, mime |-> <<"application/", "octet-stream">>, big |-> FALSE] }

\* req.body.folder when a file part is handled
FolderSeenByStorage == IF upFolderFirst THEN upFolder ELSE <<>>

UpInit ==
    /\ upVariant \in Variants
    /\ upPc = "idle"
    /\ upFolder = <<>>
    /\ upFolderFirst = FALSE
    /\ upSeen = 0
    /\ upSawBig = FALSE
    /\ upFiles = {}
    /\ upOps = {}
    /\ upStatus = 0
    /\ upBody = <<>>

\* a multipart request arrives
UploadArrives ==
    /\ upPc = "idle"
    /\ upPc' = "parsing"
    /\ upFolder' \in UploadFolders
    /\ upFolderFirst' \in BOOLEAN
    /\ UNCHANGED <<upVariant, upSeen, upSawBig, upFiles, upOps, upStatus, upBody,
                   pathVars, delVars, folVars, lsVars, fileVars, rcVars>>

\* the upload is aborted with err: the files stored so far (and the one
\* being written, if any) are removed, the error middleware answers
Abort(err, stored, ops) ==
    /\ upOps' = upOps \cup ops \cup {[op |-> "unlink", path |-> f] : f \in stored}
    /\ upFiles' = {}
    /\ upStatus' = errorMiddleware(err).status
    /\ upBody' = <<[error |-> errorMiddleware(err).error]>>
    /\ upPc' = "done"

\* the next file part of field photos is read and handled
UploadFilePart ==
    /\ upPc = "parsing"
    /\ upSeen < MaxRequestFiles
    /\ upSeen' = upSeen + 1
    /\ \E part \in UploadParts, t \in Instants :
         IF upSeen >= limitsFiles(upVariant)
             \* the parser's file limit is reached: the part is skipped
             THEN Abort(MulterError("LIMIT_FILE_COUNT"), upFiles, {}) /\ UNCHANGED upSawBig
         ELSE IF upSeen >= MaxCount
             \* more files in the field than upload.array allows
             THEN Abort(MulterError("LIMIT_UNEXPECTED_FILE"), upFiles, {}) /\ UNCHANGED upSawBig
         ELSE IF fileFilter(part.name, part.mime) # <<>>
             THEN Abort(fileFilter(part.name, part.mime)[1], upFiles, {}) /\ UNCHANGED upSawBig
         ELSE LET uploadDir == storageDestination(FolderSeenByStorage)
                  filePath == pathJoin(uploadDir, storageFilename(part.name, t))
                  written == {[op |-> "ensureDir", path |-> uploadDir],
                              [op |-> "write", path |-> filePath]}
              IN  IF part.big
                  \* the file is cut at the limit, then removed with the others
                  THEN /\ Abort(MulterError("LIMIT_FILE_SIZE"), upFiles \cup {filePath}, written)
                       /\ upSawBig' = TRUE
                  ELSE /\ upOps' = upOps \cup written
                       /\ upFiles' = upFiles \cup {filePath}
                       /\ UNCHANGED <<upSawBig, upStatus, upBody, upPc>>
    /\ UNCHANGED <<upVariant, upFolder, upFolderFirst,
                   pathVars, delVars, folVars, lsVars, fileVars, rcVars>>

\* the body ends and the route handler runs
UploadHandler ==
    /\ upPc = "parsing"
    /\ IF upFiles = {}
       THEN /\ upStatus' = 400
            /\ upBody' = <<[error |-> "no files"]>>
       ELSE /\ upStatus' = 200
            /\ upBody' = <<[success |-> TRUE,
                            folder |-> IF Len(upFolder) = 0 THEN <<"temp">> ELSE upFolder,
                            paths |-> {pathRelative(PHOTO_DIR, f) : f \in upFiles}]>>
    /\ upPc' = "done"
    /\ UNCHANGED <<upVariant, upFolder, upFolderFirst, upSeen, upSawBig, upFiles, upOps,
                   pathVars, delVars, folVars, lsVars, fileVars, rcVars>>

\* the connection closes
UploadCloses ==
    /\ upPc = "done"
    /\ upPc' = "idle"
    /\ upFolder' = <<>>
    /\ upFolderFirst' = FALSE
    /\ upSeen' = 0
    /\ upSawBig' = FALSE
    /\ upFiles' = {}
    /\ upOps' = {}
    /\ upStatus' = 0
    /\ upBody' = <<>>
    /\ UNCHANGED <<upVariant, pathVars, delVars, folVars, lsVars, fileVars, rcVars>>

NextUpload == UploadArrives \/ UploadFilePart \/ UploadHandler \/ UploadCloses

InitUpload == UpInit /\ PathIdle /\ DelIdle /\ FolIdle /\ LsIdle /\ FileIdle /\ RcIdle

SpecUpload == InitUpload /\ [][NextUpload]_vars

\* C3: whatever the folder field, the directory created and the files
\* written lie inside the photo root, and every path of the response
\* resolves inside the photo root.
C3_UploadStaysInsideRoot ==
    /\ \A o \in upOps : InsideRoot(o.path)
    /\ (upStatus = 200) =>
          \A p \in upBody[1].paths : InsideRoot(pathJoin(PHOTO_DIR, p))

\* C8: a request that exceeds a limit (an eleventh file in field photos, or
\* a file over the maximum size) is answered 400 with the message of the
\* limit it exceeded.
C8_LimitsAnswered400 ==
    upPc = "done" =>
        /\ upSeen > MaxCount =>
              (upStatus = 400 /\ upBody[1].error = "at most 10 files")
        /\ upSawBig =>
              (upStatus = 400 /\ upBody[1].error = "file too large")

-----------------------------------------------------------------------------
(* GET /api/photos running at the same time as DELETE /api/photos: each     *)
(* await of the two handlers is a step, and the steps interleave.  The      *)
(* listed directory is the photo root; page and limit are the defaults.     *)

\* the names of the entries of a directory, in readdir order
NamesOf(dir) == [i \in 1..Len(dir) |-> dir[i].name]

\* is there an entry of that name?
HasEntry(dir, name) == \E i \in 1..Len(dir) : dir[i].name = name

\* fs.stat of an entry that is there
statOf(dir, name) == dir[CHOOSE i \in 1..Len(dir) : dir[i].name = name]

\* fs.unlink: the directory without the entry of that name
RECURSIVE unlink(_, _)
unlink(dir, name) ==
    IF Len(dir) = 0 THEN <<>>
    ELSE IF Head(dir).name = name THEN unlink(Tail(dir), name)
    ELSE <<Head(dir)>> \o unlink(Tail(dir), name)

\* the name under PHOTO_DIR that the delete's fullPath points at, <<>> when
\* it points nowhere in the listed directory
DeleteTarget(photoPath) ==
    LET fullPath == pathJoin(PHOTO_DIR, decodeURIComponent(photoPath))
        prefix == PHOTO_DIR \o <<"/">>
    IN  IF Len(fullPath) > Len(prefix) /\ SubSeq(fullPath, 1, Len(prefix)) = prefix
        THEN SubSeq(fullPath, Len(prefix) + 1, Len(fullPath))
        ELSE <<>>

\* a name no entry has
AbsentName == <<"gone", ".", "jpg">>

RcInit ==
    /\ rcFs \in DirectoriesUpTo(MaxListed)
    /\ rcAtStart = <<>>
    /\ rcPc = "idle"
    /\ rcAll = <<>>
    /\ rcNext = 0
    /\ rcStats = <<>>
    /\ rcStatus = 0
    /\ rcBody = <<>>
    /\ rcDelPc = "idle"
    /\ rcDelPath = <<>>
    /\ rcDelStatus = 0

\* GET /api/photos arrives
ListArrives ==
    /\ rcPc = "idle"
    /\ rcPc' = "received"
    /\ rcAtStart' = rcFs
    /\ UNCHANGED <<rcFs, rcAll, rcNext, rcStats, rcStatus, rcBody,
                   rcDelPc, rcDelPath, rcDelStatus,
                   pathVars, delVars, folVars, lsVars, fileVars, upVars>>

\* await fs.pathExists(directoryPath): the photo root is there
ListPathExists ==
    /\ rcPc = "received"
    /\ rcPc' = "readdir"
    /\ UNCHANGED <<rcFs, rcAtStart, rcAll, rcNext, rcStats, rcStatus, rcBody,
                   rcDelPc, rcDelPath, rcDelStatus,
                   pathVars, delVars, folVars, lsVars, fileVars, upVars>>

\* await fs.readdir(directoryPath)
ListReaddir ==
    /\ rcPc = "readdir"
    /\ rcAll' = NamesOf(rcFs)
    /\ rcNext' = 1
    /\ rcPc' = "loop"
    /\ UNCHANGED <<rcFs, rcAtStart, rcStats, rcStatus, rcBody,
                   rcDelPc, rcDelPath, rcDelStatus,
                   pathVars, delVars, folVars, lsVars, fileVars, upVars>>

\* one turn of the loop: await fs.stat(filePath).  For a name that is no
\* longer there stat rejects with ENOENT, the route's catch answers 500.
ListStat ==
    /\ rcPc = "loop"
    /\ rcNext <= Len(rcAll)
    /\ IF HasEntry(rcFs, rcAll[rcNext])
       THEN /\ rcStats' = Append(rcStats, statOf(rcFs, rcAll[rcNext]))
            /\ rcNext' = rcNext + 1
            /\ UNCHANGED <<rcPc, rcStatus, rcBody>>
       ELSE /\ rcStatus' = 500
            /\ rcPc' = "done"
            /\ UNCHANGED <<rcStats, rcNext, rcBody>>
    /\ UNCHANGED <<rcFs, rcAtStart, rcAll, rcDelPc, rcDelPath, rcDelStatus,
                   pathVars, delVars, folVars, lsVars, fileVars, upVars>>

\* after the loop: sort, slice, res.json(result)
ListResponds ==
    /\ rcPc = "loop"
    /\ rcNext > Len(rcAll)
    /\ rcBody' = <<getPaginatedPhotos(rcStats,
                                      QueryOr(<<>>, DefaultPage),
                                      QueryOr(<<>>, DefaultLimit),
                                      <<>>)>>
    /\ rcStatus' = 200
    /\ rcPc' = "done"
    /\ UNCHANGED <<rcFs, rcAtStart, rcAll, rcNext, rcStats,
                   rcDelPc, rcDelPath, rcDelStatus,
                   pathVars, delVars, folVars, lsVars, fileVars, upVars>>

\* DELETE /api/photos?path=... arrives, for an entry or for no entry
RaceDeleteArrives ==
    /\ rcDelPc = "idle"
    /\ \E photoPath \in {rcFs[i].name : i \in 1..Len(rcFs)} \cup {AbsentName} :
           rcDelPath' = photoPath
    /\ rcDelPc' = "received"
    /\ UNCHANGED <<rcFs, rcAtStart, rcPc, rcAll, rcNext, rcStats, rcStatus, rcBody,
                   rcDelStatus,
                   pathVars, delVars, folVars, lsVars, fileVars, upVars>>

\* the delete handler up to the result of await fs.pathExists(fullPath)
RaceDeleteChecks ==
    /\ rcDelPc = "received"
    /\ LET st == IF Len(rcDelPath) = 0 THEN 400
                 ELSE IF ~validatePath(rcDelPath) THEN 400
                 ELSE IF Malformed(rcDelPath) THEN 500
                 ELSE IF ~HasEntry(rcFs, DeleteTarget(rcDelPath)) THEN 404
                 ELSE 0
       IN  /\ rcDelStatus' = st
           /\ rcDelPc' = IF st = 0 THEN "unlink" ELSE "done"
    /\ UNCHANGED <<rcFs, rcAtStart, rcPc, rcAll, rcNext, rcStats, rcStatus, rcBody,
                   rcDelPath,
                   pathVars, delVars, folVars, lsVars, fileVars, upVars>>

\* await fs.unlink(fullPath), then the success response; unlink of a
\* directory rejects and the catch answers 500
RaceDeleteUnlinks ==
    /\ rcDelPc = "unlink"
    /\ LET name == DeleteTarget(rcDelPath)
       IN  IF HasEntry(rcFs, name) /\ statOf(rcFs, name).isFile
           THEN /\ rcFs' = unlink(rcFs, name)
                /\ rcDelStatus' = 200
           ELSE /\ rcDelStatus' = 500
                /\ UNCHANGED rcFs
    /\ rcDelPc' = "done"
    /\ UNCHANGED <<rcAtStart, rcPc, rcAll, rcNext, rcStats, rcStatus, rcBody,
                   rcDelPath,
                   pathVars, delVars, folVars, lsVars, fileVars, upVars>>

NextListDelete ==
    \/ ListArrives
    \/ ListPathExists
    \/ ListReaddir
    \/ ListStat
    \/ ListResponds
    \/ RaceDeleteArrives
    \/ RaceDeleteChecks
    \/ RaceDeleteUnlinks

InitListDelete ==
    RcInit /\ PathIdle /\ DelIdle /\ FolIdle /\ LsIdle /\ FileIdle /\ UpIdle

SpecListDelete == InitListDelete /\ [][NextListDelete]_vars

\* the delete removed a file between the listing's readdir and the stat of
\* that file
DeleteLandedInTheLoop ==
    /\ rcDelStatus = 200
    /\ \E i \in 1..Len(rcAll) :
           /\ rcAll[i] = DeleteTarget(rcDelPath)
           /\ i > Len(rcStats)

\* C13: a photo listing that runs while a file of the listed directory is
\* deleted, the delete landing between the listing's directory read and its
\* stat of that file, is answered with a listing result, not with an error,
\* and every item of the result is a file that was in the directory at some
\* point during the request.
C13_ListingSurvivesDelete ==
    (rcPc = "done" /\ DeleteLandedInTheLoop) =>
        /\ rcStatus = 200
        /\ \A i \in 1..Len(rcBody[1].photos) :
               HasEntry(rcAtStart, rcBody[1].photos[i].name)

\* the part of C13 about the items, for the listings that are answered
ListedItemsExisted ==
    (rcPc = "done" /\ rcStatus = 200) =>
        \A i \in 1..Len(rcBody[1].photos) :
            HasEntry(rcAtStart, rcBody[1].photos[i].name)

-----------------------------------------------------------------------------
(* SpecPath: validatePath as a pure function over every short input *)

PathChars == {"a", ".", "/", "\\"}

PathInit ==
    /\ vpInput \in SeqsUpTo(PathChars, MaxPathLen)
    /\ vpResult = <<>>

InitPath == PathInit /\ DelIdle /\ FolIdle /\ LsIdle /\ FileIdle /\ UpIdle /\ RcIdle

Validate ==
    /\ vpResult = <<>>
    /\ vpResult' = <<validatePath(vpInput)>>
    /\ UNCHANGED <<vpInput, delVars, folVars, lsVars, fileVars, upVars, rcVars>>

NextPath == Validate

SpecPath == InitPath /\ [][NextPath]_vars

\* the segments of s when both "/" and "\" separate
SplitAnySep(s) == SplitSlash([i \in 1..Len(s) |-> IF s[i] = "\\" THEN "/" ELSE s[i]])

HasDotDotSegment(s) == \E i \in 1..Len(SplitAnySep(s)) : SplitAnySep(s)[i] = DotDotSeg

\* Walking the "/"-separated segments of a relative path with a depth
\* counter: does some ".." segment step above the directory the path starts in?
RECURSIVE ClimbsFrom(_, _)
ClimbsFrom(segs, depth) ==
    IF Len(segs) = 0 THEN FALSE
    ELSE IF Head(segs) = <<>> \/ Head(segs) = DotSeg THEN ClimbsFrom(Tail(segs), depth)
    ELSE IF Head(segs) = DotDotSeg
        THEN depth = 0 \/ ClimbsFrom(Tail(segs), depth - 1)
    ELSE ClimbsFrom(Tail(segs), depth + 1)

ClimbsAbove(s) == Len(s) > 0 /\ s[1] # "/" /\ ClimbsFrom(SplitSlash(s), 0)

\* C1 (as stated): every input with a ".." segment, in any position and with
\* either slash as separator, is rejected by validatePath.
C1_AnyDotDotSegmentRejected ==
    (vpResult # <<>> /\ HasDotDotSegment(vpInput)) => vpResult = <<FALSE>>

\* What the guard does ensure: it rejects every relative input in which a
\* "/"-separated ".." segment steps above the directory the path starts in,
\* and every input without "/" that contains "..".  A ".." cancelled by a
\* preceding segment, or following a leading "/", is normalised away.
ClimbingRelativePathRejected ==
    (/\ vpResult # <<>>
     /\ \/ ClimbsAbove(vpInput)
        \/ (~IncludesChar(vpInput, "/") /\ IncludesDotDot(vpInput)))
    => vpResult = <<FALSE>>

====
